---------------------------- MODULE Spec2Model ----------------------------
(***************************************************************************)
(* A model of the Texas Hold'em session engine of server.js: the hand     *)
(* evaluator (PokerHand), the deck (Deck) and the per-table engine        *)
(* (Table) with the socket handlers and timers that drive it.             *)
(*                                                                         *)
(* Seat positions are the code's 0-based indices into the players array;  *)
(* the seat at position pos is players[pos + 1] here.                     *)
(***************************************************************************)
EXTENDS Integers, Sequences, FiniteSets, TLC

VARIABLES
    tableOpen,            \* the table is in the `tables` map
    players,              \* Table.players
    spectators,           \* Table.spectators (socket ids)
    gameStarted,          \* Table.gameStarted
    paused,               \* Table.paused
    deck,                 \* Table.deck.cards
    communityCards,       \* Table.communityCards
    pot,                  \* Table.pot
    currentBet,           \* Table.currentBet
    minRaise,             \* Table.minRaise
    dealerPosition,       \* Table.dealerPosition
    currentTurnPosition,  \* Table.currentTurnPosition
    gamePhase,            \* Table.gamePhase
    turnTimeout,          \* Table.turnTimeout: "null" or "pending"
    actionLog,            \* Table.actionLog: its most recent LogKeep entries
    smallBlind,           \* Table.smallBlind
    bigBlind,             \* Table.bigBlind
    nextHandTimers,       \* number of pending setTimeout callbacks of scheduleNextHand
    disconnectTimers,     \* sockets whose 5-minute grace timer is pending
    playerSockets,        \* sockets mapped to the table in `playerSockets`
    gone,                 \* sockets that have disconnected (ids are never reused)
    handsStarted,         \* number of hands dealt so far (bounded by MaxHands)
    hung,                 \* a handler entered a loop that never ends
    joined,               \* number of connections that have joined so far
    irregular,            \* number of out-of-the-ordinary events so far (bounded by MaxIrregular)
    headsUp,              \* history: isHeadsUp of the latest startNewHand that dealt a hand
    button,               \* history: the connection given the dealer button by that startNewHand
    evalA,                \* evaluator harness: first hand
    evalB,                \* evaluator harness: second hand
    evalOut               \* evaluator harness: the two results, or <<>>

tableVars == <<tableOpen, players, spectators, gameStarted, paused, deck,
               communityCards, pot, currentBet, minRaise, dealerPosition,
               currentTurnPosition, gamePhase, turnTimeout, actionLog,
               smallBlind, bigBlind, nextHandTimers, disconnectTimers,
               playerSockets, gone, handsStarted, hung>>

evalVars == <<evalA, evalB, evalOut>>

boundVars == <<joined, irregular, headsUp, button>>

vars == <<tableVars, boundVars, evalVars>>

-----------------------------------------------------------------------------
(* Generic helpers                                                         *)

Range(s) == {s[i] : i \in DOMAIN s}

RECURSIVE SumSeq(_)
SumSeq(s) == IF s = <<>> THEN 0 ELSE Head(s) + SumSeq(Tail(s))

RECURSIVE Pow(_, _)
Pow(b, e) == IF e = 0 THEN 1 ELSE b * Pow(b, e - 1)

MaxOf(S) == CHOOSE x \in S : \A y \in S : y <= x

MinOf(S) == CHOOSE x \in S : \A y \in S : x <= y

Min2(a, b) == IF a < b THEN a ELSE b

\* The elements of a set of integers as a descending sequence: sort((a, b) => b - a).
RECURSIVE SortDesc(_)
SortDesc(S) == IF S = {} THEN <<>> ELSE <<MaxOf(S)>> \o SortDesc(S \ {MaxOf(S)})

\* A sequence of integers sorted descending, duplicates kept.
RECURSIVE SortSeqDesc(_)
SortSeqDesc(s) ==
    IF s = <<>> THEN <<>>
    ELSE LET i == CHOOSE j \in DOMAIN s : \A k \in DOMAIN s : s[k] <= s[j]
         IN <<s[i]>> \o SortSeqDesc([k \in 1..(Len(s) - 1) |-> IF k < i THEN s[k] ELSE s[k + 1]])

Reverse(s) == [i \in 1..Len(s) |-> s[Len(s) + 1 - i]]

-----------------------------------------------------------------------------
(* Cards and the deck                                                      *)

Suits == <<"hearts", "diamonds", "clubs", "spades">>

CardValues == <<2, 3, 4, 5, 6, 7, 8, 9, 10, 11, 12, 13, 14>>

Card(s, v) == [suit |-> s, value |-> v]

\* Deck.reset before the shuffle: suit by suit, values ascending. Decks, hole
\* cards and community cards hold card objects by their index in this list.
FreshDeck ==
    [i \in 1..(Len(Suits) * Len(CardValues)) |->
        Card(Suits[((i - 1) \div Len(CardValues)) + 1],
             CardValues[((i - 1) % Len(CardValues)) + 1])]

\* The index in FreshDeck of the card of suit s and value v
CardId(s, v) == CHOOSE i \in DOMAIN FreshDeck : FreshDeck[i] = Card(s, v)

\* The card objects of a list of card indices
CardsOf(ids) == [i \in DOMAIN ids |-> FreshDeck[ids[i]]]

-----------------------------------------------------------------------------
(* PokerHand                                                               *)

\* The values of a 5-card combo, sorted descending (duplicates kept).
HandValues(cards) == SortSeqDesc([i \in DOMAIN cards |-> cards[i].value])

\* valueCounts[v]
ValueCount(cards, v) == Cardinality({i \in DOMAIN cards : cards[i].value = v})

\* Object.values(valueCounts).sort((a, b) => b - a)
Counts(cards) ==
    LET vs == SortDesc({cards[i].value : i \in DOMAIN cards})
    IN SortSeqDesc([i \in DOMAIN vs |-> ValueCount(cards, vs[i])])

\* Object.keys(valueCounts).find(k => valueCounts[k] === n): integer keys are
\* enumerated ascending, so the first match is the smallest value.
FindValueWithCount(cards, n) ==
    MinOf({cards[i].value : i \in {j \in DOMAIN cards : ValueCount(cards, cards[j].value) = n}})

checkStraight(values) ==
    LET unique == SortDesc(Range(values))
    IN IF Len(unique) < 5 THEN FALSE
       ELSE \/ \E i \in 1..(Len(unique) - 4) : unique[i] - unique[i + 4] = 4
            \/ {14, 5, 4, 3, 2} \subseteq Range(unique)

\* values.reduce((acc, v, i) => acc + v * Math.pow(100, 4 - i), 0)
PositionalScore(values) ==
    SumSeq([i \in DOMAIN values |-> values[i] * Pow(100, 5 - i)])

evaluateHand(cards) ==
    LET values == HandValues(cards)
        counts == Counts(cards)
        isFlush == \A i \in DOMAIN cards : cards[i].suit = cards[1].suit
        isStraight == checkStraight(values)
    IN  IF isStraight /\ isFlush
          THEN [rank |-> 8, score |-> 8000000 + values[1]]
        ELSE IF counts[1] = 4
          THEN [rank |-> 7, score |-> 7000000 + FindValueWithCount(cards, 4) * 1000]
        ELSE IF counts[1] = 3 /\ Len(counts) >= 2 /\ counts[2] = 2
          THEN [rank |-> 6, score |-> 6000000 + FindValueWithCount(cards, 3) * 1000
                                              + FindValueWithCount(cards, 2)]
        ELSE IF isFlush
          THEN [rank |-> 5, score |-> 5000000 + PositionalScore(values)]
        ELSE IF isStraight
          THEN [rank |-> 4, score |-> 4000000 + values[1]]
        ELSE IF counts[1] = 3
          THEN [rank |-> 3, score |-> 3000000 + FindValueWithCount(cards, 3) * 1000]
        ELSE IF counts[1] = 2 /\ Len(counts) >= 2 /\ counts[2] = 2
          THEN LET pairs == SortDesc({cards[i].value : i \in
                                 {j \in DOMAIN cards : ValueCount(cards, cards[j].value) = 2}})
               IN [rank |-> 2, score |-> 2000000 + pairs[1] * 10000 + pairs[2] * 100]
        ELSE IF counts[1] = 2
          THEN [rank |-> 1, score |-> 1000000 + FindValueWithCount(cards, 2) * 1000]
        ELSE [rank |-> 0, score |-> PositionalScore(values)]

\* getCombinations(arr, k) as lists of indices into arr (from 1), in the
\* order the recursion f(start, combo) pushes them: lexicographic.
RECURSIVE getCombinationsFrom(_, _, _)
getCombinationsFrom(start, n, k) ==
    IF k = 0 THEN << <<>> >>
    ELSE IF start > n THEN <<>>
    ELSE LET with == getCombinationsFrom(start + 1, n, k - 1)
         IN [i \in DOMAIN with |-> <<start>> \o with[i]] \o getCombinationsFrom(start + 1, n, k)

getCombinations(n, k) == getCombinationsFrom(1, n, k)

\* The 21 five-card combos of a 7-card hand.
SevenChooseFive == getCombinations(7, 5)

rankHand(cards) ==
    IF Len(cards) # 7 THEN [rank |-> 0, score |-> 0]
    ELSE LET combos == SevenChooseFive
             res == [i \in DOMAIN combos |->
                        evaluateHand([j \in DOMAIN combos[i] |-> cards[combos[i][j]]])]
             top == MaxOf({res[i].score : i \in DOMAIN res})
             \* `result.score > best.score` keeps the first combo with the top score
             first == MinOf({i \in DOMAIN res : res[i].score = top})
         IN IF top > 0 THEN res[first] ELSE [rank |-> 0, score |-> 0]

HandNames == <<"High Card", "One Pair", "Two Pair", "Three of a Kind", "Straight",
               "Flush", "Full House", "Four of a Kind", "Straight Flush">>

getHandName(rank) == IF rank + 1 \in DOMAIN HandNames THEN HandNames[rank + 1] ELSE "Unknown"

-----------------------------------------------------------------------------
(* Bounds and settings of the checked configuration                        *)

NumSockets == 3          \* connections that ever join; they are numbered in joining order
MaxAmount == 5           \* raise amounts submitted by clients are 0..MaxAmount
NumShuffles == 2         \* outcomes of Deck.shuffle that are explored
MaxHands == 2            \* hands dealt to a table of two active players
MaxHandsMultiway == 1    \* hands dealt to a table of more than two active players
MaxHandsRaised == 3      \* hands dealt to a table of two once the blinds have been raised
LogKeep == 2             \* entries of the action log the model retains, the newest ones
MaxIrregular == 1        \* events other than seating before the game, play and timers
StartingChips == 4       \* settings.startingChips
SmallBlindSetting == 1   \* settings.smallBlind
BigBlindSetting == 2     \* settings.bigBlind
MaxPlayersSetting == 3   \* settings.maxPlayers

Sockets == 1..NumSockets

HostId == 1

\* settings.blindIncrease, settings.blindIncreaseAmount, settings.newPlayerChips
BlindIncrease == "perElimination"

BlindIncreaseAmount == SmallBlindSetting

NewPlayerChips == "starting"

Actions == {"fold", "check", "call", "raise", "bet"}

Amounts == 0..MaxAmount

\* The submissions the clients make: an amount goes with a raise only
Submissions == {x \in Actions \X Amounts : x[1] = "raise" \/ x[2] = 0}

BettingPhases == {"preflop", "flop", "turn", "river"}

\* The cards a shuffle leaves on top of the deck, in the order deal() returns
\* them. Outcome 1: three seats - the first and the third tie, two seats - one
\* winner. Outcome 2: two seats tie on the board, three seats - one winner.
\* Outcome 3: every seat plays the board.
ShuffleTops == <<
    << CardId("hearts", 13), CardId("diamonds", 2), CardId("spades", 3), CardId("spades", 4),
       CardId("diamonds", 13), CardId("clubs", 2), CardId("clubs", 14), CardId("hearts", 12),
       CardId("diamonds", 11), CardId("clubs", 9), CardId("spades", 7) >>,
    << CardId("hearts", 2), CardId("diamonds", 3), CardId("spades", 2), CardId("clubs", 4),
       CardId("hearts", 14), CardId("diamonds", 13), CardId("clubs", 12), CardId("spades", 11),
       CardId("diamonds", 9), CardId("clubs", 8), CardId("diamonds", 5) >>,
    << CardId("hearts", 2), CardId("diamonds", 3), CardId("diamonds", 2), CardId("clubs", 3),
       CardId("clubs", 2), CardId("hearts", 3), CardId("spades", 14), CardId("spades", 13),
       CardId("diamonds", 12), CardId("clubs", 11), CardId("spades", 9) >> >>

RECURSIVE Without(_, _)
Without(s, S) ==
    IF s = <<>> THEN <<>>
    ELSE IF Head(s) \in S THEN Without(Tail(s), S) ELSE <<Head(s)>> \o Without(Tail(s), S)

\* Deck.reset followed by Deck.shuffle, for each explored outcome k: a
\* permutation of the 52 cards; deal() pops from the end.
ShuffledDecks ==
    [k \in 1..NumShuffles |->
        LET top == ShuffleTops[((k - 1) % Len(ShuffleTops)) + 1]
        IN Without([i \in DOMAIN FreshDeck |-> i], Range(top)) \o Reverse(top)]

Shuffled(k) == ShuffledDecks[k]

-----------------------------------------------------------------------------
(* Table: the state as one record, so that a handler is a composition of   *)
(* the methods it calls                                                    *)

TableRec ==
    [tableOpen |-> tableOpen, players |-> players, spectators |-> spectators,
     gameStarted |-> gameStarted, paused |-> paused, deck |-> deck,
     communityCards |-> communityCards, pot |-> pot, currentBet |-> currentBet,
     minRaise |-> minRaise, dealerPosition |-> dealerPosition,
     currentTurnPosition |-> currentTurnPosition, gamePhase |-> gamePhase,
     turnTimeout |-> turnTimeout, actionLog |-> actionLog,
     smallBlind |-> smallBlind, bigBlind |-> bigBlind,
     nextHandTimers |-> nextHandTimers, disconnectTimers |-> disconnectTimers,
     playerSockets |-> playerSockets, gone |-> gone,
     handsStarted |-> handsStarted, hung |-> hung]

SetTable(T) ==
    /\ tableOpen' = T.tableOpen
    /\ players' = T.players
    /\ spectators' = T.spectators
    /\ gameStarted' = T.gameStarted
    /\ paused' = T.paused
    /\ deck' = T.deck
    /\ communityCards' = T.communityCards
    /\ pot' = T.pot
    /\ currentBet' = T.currentBet
    /\ minRaise' = T.minRaise
    /\ dealerPosition' = T.dealerPosition
    /\ currentTurnPosition' = T.currentTurnPosition
    /\ gamePhase' = T.gamePhase
    /\ turnTimeout' = T.turnTimeout
    /\ actionLog' = T.actionLog
    /\ smallBlind' = T.smallBlind
    /\ bigBlind' = T.bigBlind
    /\ nextHandTimers' = T.nextHandTimers
    /\ disconnectTimers' = T.disconnectTimers
    /\ playerSockets' = T.playerSockets
    /\ gone' = T.gone
    /\ handsStarted' = T.handsStarted
    /\ hung' = T.hung

\* new Table(id, hostId, settings)
NewTable ==
    [tableOpen |-> TRUE, players |-> <<>>, spectators |-> {},
     gameStarted |-> FALSE, paused |-> FALSE, deck |-> Shuffled(1),
     communityCards |-> <<>>, pot |-> 0, currentBet |-> 0,
     minRaise |-> 0, dealerPosition |-> -1,
     currentTurnPosition |-> -1, gamePhase |-> "waiting",
     turnTimeout |-> "null", actionLog |-> <<>>,
     smallBlind |-> SmallBlindSetting, bigBlind |-> BigBlindSetting,
     nextHandTimers |-> 0, disconnectTimers |-> {},
     playerSockets |-> {}, gone |-> {},
     handsStarted |-> 0, hung |-> FALSE]

\* The seat pushed by addPlayer. hasActedThisRound and lastAction are undefined
\* until first set; undefined is read only through `!p.hasActedThisRound`.
NewPlayer(socketId, chips) ==
    [socketId |-> socketId, chips |-> chips, bet |-> 0, folded |-> FALSE,
     cards |-> <<>>, disconnected |-> FALSE, isAllIn |-> FALSE,
     totalBetThisRound |-> 0, hasActedThisRound |-> FALSE,
     lastAction |-> "undefined", eliminated |-> FALSE]

Positions(T) == 0..(Len(T.players) - 1)

P(T, pos) == T.players[pos + 1]

\* this.players.filter(...): the seats at the 0-based positions in keep, in seat order
RECURSIVE FilterSeats(_, _, _)
FilterSeats(ps, keep, pos) ==
    IF ps = <<>> THEN <<>>
    ELSE IF pos \in keep
         THEN <<Head(ps)>> \o FilterSeats(Tail(ps), keep, pos + 1)
         ELSE FilterSeats(Tail(ps), keep, pos + 1)

\* getPlayer(socketId): the position of the first seat with that socket, or -1
PosOf(T, socketId) ==
    IF \E pos \in Positions(T) : P(T, pos).socketId = socketId
    THEN MinOf({pos \in Positions(T) : P(T, pos).socketId = socketId})
    ELSE -1

getActivePlayers(T) ==
    {pos \in Positions(T) : P(T, pos).chips > 0 /\ ~P(T, pos).disconnected}

getPlayersInHand(T) ==
    {pos \in Positions(T) :
        ~P(T, pos).folded /\ ~P(T, pos).disconnected /\ P(T, pos).chips >= 0}

broadcastAction(T, message) ==
    LET log == Append(T.actionLog, message)
    IN [T EXCEPT !.actionLog = IF Len(log) > LogKeep THEN Tail(log) ELSE log]

clearTurnTimer(T) == [T EXCEPT !.turnTimeout = "null"]

startTurnTimer(T) == [clearTurnTimer(T) EXCEPT !.turnTimeout = "pending"]

getNextActivePosition(T, fromPosition) ==
    IF getActivePlayers(T) = {} THEN -1
    ELSE LET n == Len(T.players)
             k == MinOf({j \in 1..n : ((fromPosition + j) % n) \in getActivePlayers(T)})
         IN (fromPosition + k) % n

\* deck.deal(): pop the last card
DealtCard(T) == T.deck[Len(T.deck)]

AfterDeal(T) == [T EXCEPT !.deck = SubSeq(@, 1, Len(@) - 1)]

scheduleNextHand(T) ==
    LET eliminated == {pos \in Positions(T) : P(T, pos).chips = 0 /\ ~P(T, pos).eliminated}
        T1 == IF BlindIncrease = "perElimination" /\ eliminated # {}
              THEN LET sb == T.smallBlind + BlindIncreaseAmount
                   IN broadcastAction(
                        [T EXCEPT !.players = [i \in DOMAIN @ |->
                                                IF (i - 1) \in eliminated
                                                THEN [@[i] EXCEPT !.eliminated = TRUE]
                                                ELSE @[i]],
                                  !.smallBlind = sb,
                                  !.bigBlind = sb * 2],
                        <<"Blinds increased to", sb, sb * 2>>)
              ELSE T
        T2 == [T1 EXCEPT !.players =
                  FilterSeats(@, {pos \in Positions(T1) : P(T1, pos).chips > 0}, 0)]
        active == getActivePlayers(T2)
    IN IF Cardinality(active) < 2
       THEN LET T3 == [T2 EXCEPT !.gamePhase = "ended"]
            IN IF Cardinality(active) = 1
               THEN broadcastAction(T3, <<"wins the tournament!",
                                          P(T3, CHOOSE pos \in active : TRUE).socketId>>)
               ELSE T3
       ELSE [T2 EXCEPT !.gamePhase = "waiting_next_hand",
                       !.nextHandTimers = @ + 1]

endHand(T, winner) ==
    scheduleNextHand([T EXCEPT !.players[winner + 1].chips = @ + T.pot])

\* The seven cards of the j-th of n dealt seats at showdown after shuffle k:
\* startNewHand deals two cards to each active seat in seat order, then
\* dealNextStreet deals the five community cards.
DealtSeven(k, n, j) ==
    LET d == ShuffledDecks[k]
        m == Len(d)
    IN <<d[m - 2 * (j - 1)], d[m - 2 * (j - 1) - 1]>> \o [i \in 1..5 |-> d[m - 2 * n - (i - 1)]]

\* rankHand of every hand a full deal can produce, computed once.
RankOfDealt ==
    [h \in {DealtSeven(k, nj[1], nj[2]) :
               k \in 1..NumShuffles,
               nj \in {x \in (2..MaxPlayersSetting) \X (1..MaxPlayersSetting) : x[2] <= x[1]}}
       |-> rankHand(CardsOf(h))]

\* rankHand of the cards h, read from the memo when h is a full deal
RankOfHand(h, memo) ==
    IF h \in DOMAIN memo THEN memo[h] ELSE rankHand(CardsOf(h))

\* PokerHand.rankHand([...p.cards, ...this.communityCards])
HandOf(T, pos) == RankOfHand(P(T, pos).cards \o T.communityCards, RankOfDealt)

\* A faulty ranking: the sort is ascending, so the lowest scores win.
LowestScores(results) ==
    {pos \in DOMAIN results : \A q \in DOMAIN results : results[pos].score <= results[q].score}

\* winners of determineWinner: after the descending sort of `results`, the
\* leading results whose score equals the first one
Winners(results) ==
    {pos \in DOMAIN results : \A q \in DOMAIN results : results[q].score <= results[pos].score}

\* A faulty split: every winner is paid the whole pot.
RECURSIVE PayEachThePot(_, _, _)
PayEachThePot(T, winners, splitAmount) ==
    IF winners = {} THEN T
    ELSE LET w == MinOf(winners)
         IN PayEachThePot(broadcastAction([T EXCEPT !.players[w + 1].chips = @ + T.pot],
                                          <<"wins (split pot)", P(T, w).socketId, T.pot>>),
                          winners \ {w}, splitAmount)

RECURSIVE PaySplit(_, _, _)
PaySplit(T, winners, splitAmount) ==
    IF winners = {} THEN T
    ELSE LET w == MinOf(winners)
         IN PaySplit(broadcastAction([T EXCEPT !.players[w + 1].chips = @ + splitAmount],
                                     <<"wins (split pot)", P(T, w).socketId, splitAmount>>),
                     winners \ {w}, splitAmount)

\* Lines 577-589: one winner takes the pot, several split it.
AwardWinners(T, results, winners) ==
    IF Cardinality(winners) = 1
    THEN endHand(broadcastAction(T, <<"wins with", P(T, MinOf(winners)).socketId, T.pot,
                                     getHandName(results[MinOf(winners)].rank)>>),
                 MinOf(winners))
    ELSE scheduleNextHand(PaySplit(T, winners, T.pot \div Cardinality(winners)))

\* Lines 560-575: rank the hands and keep the best ones.
AwardShowdown(T, results) == AwardWinners(T, results, Winners(results))

\* Lines 551-558: nobody, or a single seat, is left in the hand.
AwardAmong(T, inHand) ==
    IF inHand = {} THEN T
    ELSE IF Cardinality(inHand) = 1 THEN endHand(T, MinOf(inHand))
    ELSE AwardShowdown(T, [pos \in inHand |-> HandOf(T, pos)])

determineWinner(T) == AwardAmong(T, {pos \in getPlayersInHand(T) : ~P(T, pos).folded})

dealNextStreet(T) ==
    IF T.gamePhase = "preflop"
    THEN LET n == Len(T.deck)
             T1 == [T EXCEPT !.gamePhase = "flop",
                             !.communityCards = @ \o <<T.deck[n], T.deck[n - 1], T.deck[n - 2]>>,
                             !.deck = SubSeq(@, 1, n - 3)]
         IN broadcastAction(T1, <<"Flop", T1.communityCards>>)
    ELSE IF T.gamePhase = "flop"
    THEN LET T1 == [AfterDeal(T) EXCEPT !.gamePhase = "turn",
                                        !.communityCards = Append(@, DealtCard(T))]
         IN broadcastAction(T1, <<"Turn", DealtCard(T)>>)
    ELSE IF T.gamePhase = "turn"
    THEN LET T1 == [AfterDeal(T) EXCEPT !.gamePhase = "river",
                                        !.communityCards = Append(@, DealtCard(T))]
         IN broadcastAction(T1, <<"River", DealtCard(T)>>)
    ELSE IF T.gamePhase = "river"
    THEN [T EXCEPT !.gamePhase = "showdown"]
    ELSE T

\* while (this.gamePhase !== 'showdown') this.dealNextStreet();
RECURSIVE DealToShowdown(_)
DealToShowdown(T) ==
    IF T.gamePhase = "showdown" THEN T ELSE DealToShowdown(dealNextStreet(T))

\* A faulty walk: the first active seat after the dealer gets the turn even
\* when it is folded or all-in.
SkipNobody(T, pos, fuel) == pos

\* The seat advanceToNextStreet gives the turn to: from the first active seat
\* after the dealer, follow getNextActivePosition until a seat that is not
\* folded, not all-in and has chips, or until -1.
RECURSIVE SkipToActor(_, _, _)
SkipToActor(T, pos, fuel) ==
    IF pos = -1 \/ fuel = 0 THEN pos
    ELSE IF ~P(T, pos).folded /\ ~P(T, pos).isAllIn /\ P(T, pos).chips > 0 THEN pos
    ELSE SkipToActor(T, getNextActivePosition(T, pos), fuel - 1)

\* "Reset bets for new street" of advanceToNextStreet
ResetStreetBets(T) ==
    [T EXCEPT !.players = [i \in DOMAIN @ |->
                             [@[i] EXCEPT !.bet = 0, !.hasActedThisRound = FALSE]],
              !.currentBet = 0,
              !.minRaise = T.bigBlind]

\* canAct of advanceToNextStreet: in the hand, not folded, not all-in, with chips
CanActSeats(T) ==
    {pos \in getPlayersInHand(T) :
        ~P(T, pos).folded /\ ~P(T, pos).isAllIn /\ P(T, pos).chips > 0}

\* canAct.length <= 1: deal the remaining streets and go to the showdown
RunOutBoard(T) ==
    IF T.gamePhase \in BettingPhases \cup {"showdown"}
    THEN determineWinner(DealToShowdown(T))
    ELSE \* dealNextStreet changes nothing in this phase: the loop never ends
         [T EXCEPT !.hung = TRUE]

\* A faulty opening of a street: the turn is given but no turn timer is armed.
OpenStreetUntimed(T) ==
    IF T.gamePhase = "showdown" THEN determineWinner(T)
    ELSE [T EXCEPT !.currentTurnPosition =
             SkipToActor(T, getNextActivePosition(T, T.dealerPosition), Len(T.players))]

\* After dealNextStreet: the showdown, or the turn goes to the first seat after
\* the dealer that can act.
OpenStreet(T) ==
    IF T.gamePhase = "showdown" THEN determineWinner(T)
    ELSE startTurnTimer(
           [T EXCEPT !.currentTurnPosition =
               SkipToActor(T, getNextActivePosition(T, T.dealerPosition), Len(T.players))])

AdvanceFrom(T) ==
    IF Cardinality(CanActSeats(T)) <= 1 THEN RunOutBoard(T) ELSE OpenStreet(dealNextStreet(T))

advanceToNextStreet(T) == AdvanceFrom(ResetStreetBets(T))

isBettingRoundComplete(T) ==
    LET canAct == {pos \in getPlayersInHand(T) : ~P(T, pos).folded /\ ~P(T, pos).isAllIn}
    IN \A pos \in canAct : P(T, pos).hasActedThisRound /\ ~(P(T, pos).bet < T.currentBet)

CanTakeTurn(T, pos) ==
    /\ ~P(T, pos).folded /\ ~P(T, pos).disconnected
    /\ ~P(T, pos).isAllIn /\ P(T, pos).chips > 0

moveToNextPlayer(T) ==
    LET n == Len(T.players)
        seat(k) == (T.currentTurnPosition + k) % n
        found == {k \in 1..n : CanTakeTurn(T, seat(k))}
    IN IF found # {}
       THEN startTurnTimer([T EXCEPT !.currentTurnPosition = seat(MinOf(found))])
       ELSE advanceToNextStreet(
              IF n = 0 THEN T ELSE [T EXCEPT !.currentTurnPosition = seat(n)])

\* Faulty guards: the check that the caller holds the turn is missing.
ActionAdmittedAnySeat(T, socketId) ==
    LET pos == PosOf(T, socketId)
    IN /\ pos # -1
       /\ ~P(T, pos).folded
       /\ ~P(T, pos).isAllIn
       /\ ~T.paused

\* The guards of playerAction that return false before anything is touched
\* (lines 338-342).
ActionAdmitted(T, socketId) ==
    LET pos == PosOf(T, socketId)
    IN /\ pos # -1
       /\ ~P(T, pos).folded
       /\ ~P(T, pos).isAllIn
       /\ ~T.paused
       /\ T.currentTurnPosition \in Positions(T)
       /\ P(T, T.currentTurnPosition).socketId = socketId

\* A faulty validation: the minimum-raise check is missing.
ActionLegalNoMinRaise(T, socketId, action, amount) ==
    LET player == P(T, PosOf(T, socketId))
    IN IF action = "fold" THEN TRUE
       ELSE IF action = "check" THEN ~(player.bet < T.currentBet)
       ELSE IF action = "call" THEN TRUE
       ELSE IF action = "raise"
         THEN /\ ~(amount <= T.currentBet)
              /\ ~(amount > player.chips + player.bet)
       ELSE FALSE

\* The validation inside the switch: the cases that `return false`.
ActionLegal(T, socketId, action, amount) ==
    LET player == P(T, PosOf(T, socketId))
    IN IF action = "fold" THEN TRUE
       ELSE IF action = "check" THEN ~(player.bet < T.currentBet)
       ELSE IF action = "call" THEN TRUE
       ELSE IF action = "raise"
         THEN /\ ~(amount <= T.currentBet)
              /\ ~(amount - T.currentBet < T.minRaise /\ player.chips + player.bet > amount)
              /\ ~(amount > player.chips + player.bet)
       ELSE FALSE

\* The return value of playerAction.
PlayerActionReturns(T, socketId, action, amount) ==
    ActionAdmitted(T, socketId) /\ ActionLegal(T, socketId, action, amount)

\* The switch of playerAction for a legal action: the seat's new fields, the
\* pot, the bet to match and the log message.
ApplyAction(T, socketId, action, amount) ==
    LET i == PosOf(T, socketId) + 1
        player == T.players[i]
    IN IF action = "fold"
       THEN broadcastAction([T EXCEPT !.players[i].folded = TRUE], <<"folds", socketId>>)
       ELSE IF action = "check"
       THEN broadcastAction([T EXCEPT !.players[i].hasActedThisRound = TRUE],
                            <<"checks", socketId>>)
       ELSE IF action = "call"
       THEN LET callAmount == T.currentBet - player.bet
                actualCall == Min2(callAmount, player.chips)
                allIn == (player.chips - actualCall = 0)
            IN broadcastAction(
                 [T EXCEPT !.players[i].chips = @ - actualCall,
                           !.players[i].bet = @ + actualCall,
                           !.players[i].totalBetThisRound = @ + actualCall,
                           !.pot = @ + actualCall,
                           !.players[i].hasActedThisRound = TRUE,
                           !.players[i].isAllIn = IF allIn THEN TRUE ELSE @],
                 IF allIn THEN <<"calls (all-in)", socketId, actualCall>>
                          ELSE <<"calls", socketId, actualCall>>)
       ELSE \* raise
            LET raiseAmount == amount - player.bet
                allIn == (player.chips - raiseAmount = 0)
            IN broadcastAction(
                 [T EXCEPT !.players = [j \in DOMAIN @ |->
                              IF j = i
                              THEN [@[j] EXCEPT !.chips = @ - raiseAmount,
                                                !.bet = amount,
                                                !.totalBetThisRound = @ + raiseAmount,
                                                !.hasActedThisRound = TRUE,
                                                !.isAllIn = IF allIn THEN TRUE ELSE @]
                              ELSE IF @[j].socketId # socketId /\ ~@[j].folded /\ ~@[j].isAllIn
                                   THEN [@[j] EXCEPT !.hasActedThisRound = FALSE]
                                   ELSE @[j]],
                           !.pot = @ + raiseAmount,
                           !.minRaise = amount - T.currentBet,
                           !.currentBet = amount],
                 IF allIn THEN <<"raises to (all-in)", socketId, amount>>
                          ELSE <<"raises to", socketId, amount>>)

\* Lines 416-436: after the switch.
AfterAction(T, socketId, action) ==
    LET T1 == [T EXCEPT !.players[PosOf(T, socketId) + 1].lastAction = action]
        notFolded == {pos \in getPlayersInHand(T1) : ~P(T1, pos).folded}
    IN IF Cardinality(notFolded) = 1
       THEN endHand(T1, CHOOSE pos \in notFolded : TRUE)
       ELSE IF isBettingRoundComplete(T1)
       THEN advanceToNextStreet(T1)
       ELSE moveToNextPlayer(T1)

\* Table.playerAction: the table it leaves.
playerAction(T, socketId, action, amount) ==
    IF ~ActionAdmitted(T, socketId) THEN T
    ELSE LET T1 == clearTurnTimer(T)
         IN IF ~ActionLegal(T1, socketId, action, amount) THEN T1
            ELSE AfterAction(ApplyAction(T1, socketId, action, amount), socketId, action)

\* active.forEach(p => p.cards = [deal(), deal()])
RECURSIVE DealHoleCards(_, _)
DealHoleCards(T, active) ==
    IF active = {} THEN T
    ELSE LET pos == MinOf(active)
             n == Len(T.deck)
         IN DealHoleCards([T EXCEPT !.players[pos + 1].cards = <<T.deck[n], T.deck[n - 1]>>,
                                    !.deck = SubSeq(@, 1, n - 2)],
                          active \ {pos})

PostBlind(T, pos, blind) ==
    LET amount == Min2(blind, P(T, pos).chips)
    IN [T EXCEPT !.players[pos + 1].chips = @ - amount,
                 !.players[pos + 1].bet = amount,
                 !.players[pos + 1].totalBetThisRound = amount,
                 !.pot = @ + amount,
                 !.players[pos + 1].isAllIn = IF P(T, pos).chips - amount = 0 THEN TRUE ELSE @]

\* "Reset for new hand" of startNewHand
ResetForHand(T, shuffle) ==
    [T EXCEPT !.deck = Shuffled(shuffle),
              !.communityCards = <<>>,
              !.pot = 0,
              !.currentBet = 0,
              !.minRaise = T.bigBlind,
              !.gamePhase = "preflop",
              !.actionLog = <<>>,
              !.handsStarted = @ + 1,
              !.players = [i \in DOMAIN @ |->
                  [@[i] EXCEPT !.bet = 0, !.folded = FALSE, !.cards = <<>>,
                               !.isAllIn = FALSE, !.totalBetThisRound = 0,
                               !.hasActedThisRound = FALSE]]]

\* "Move dealer button" of startNewHand
MoveButton(T) == [T EXCEPT !.dealerPosition = getNextActivePosition(T, @)]

\* Faulty blind seats: the heads-up rule at every table size, so the dealer
\* posts the small blind and acts first.
BlindSeatsDealerPosts(T) ==
    [sb |-> T.dealerPosition,
     bb |-> getNextActivePosition(T, T.dealerPosition),
     first |-> T.dealerPosition]

\* sbPosition, bbPosition and firstToActPosition of startNewHand
BlindSeats(T) ==
    LET isHeadsUp == Cardinality(getActivePlayers(T)) = 2
        sbPosition == IF isHeadsUp THEN T.dealerPosition
                      ELSE getNextActivePosition(T, T.dealerPosition)
        bbPosition == getNextActivePosition(T, sbPosition)
    IN [sb |-> sbPosition, bb |-> bbPosition,
        first |-> IF isHeadsUp THEN sbPosition ELSE getNextActivePosition(T, bbPosition)]

\* "Post big blind" of startNewHand: the post, and the bet to match
PostBigBlind(T, pos) ==
    [PostBlind(T, pos, T.bigBlind) EXCEPT !.currentBet = Min2(T.bigBlind, P(T, pos).chips)]

\* The two log messages of the blinds
LogBlinds(T, seats) ==
    broadcastAction(
        broadcastAction(T, <<"posts small blind", P(T, seats.sb).socketId, P(T, seats.sb).bet>>),
        <<"posts big blind", P(T, seats.bb).socketId, P(T, seats.bb).bet>>)

\* The blinds and the first turn of startNewHand, for the seats computed
\* before anything is posted
PostBlinds(T, seats) ==
    startTurnTimer(
        [LogBlinds(PostBigBlind(PostBlind(T, seats.sb, T.smallBlind), seats.bb), seats)
            EXCEPT !.currentTurnPosition = seats.first])

\* startNewHand once the hole cards are dealt
AfterHoleCards(T) == PostBlinds(T, BlindSeats(T))

\* The message of the tournament's end
AnnounceWinner(T, active) ==
    IF Cardinality(active) = 1
    THEN broadcastAction(T, <<"wins the tournament!", P(T, CHOOSE pos \in active : TRUE).socketId>>)
    ELSE T

\* Table.startNewHand, with the outcome of the shuffle as a parameter.
startNewHand(T, shuffle) ==
    IF Cardinality(getActivePlayers(T)) < 2
    THEN AnnounceWinner([T EXCEPT !.gamePhase = "ended"], getActivePlayers(T))
    ELSE AfterHoleCards(DealHoleCards(MoveButton(ResetForHand(T, shuffle)), getActivePlayers(T)))

\* Table.startGame: the table it leaves (unchanged when it returns false).
startGame(T, shuffle) ==
    IF Cardinality(getActivePlayers(T)) < 2 THEN T
    ELSE startNewHand([T EXCEPT !.gameStarted = TRUE, !.dealerPosition = -1], shuffle)

\* Table.addPlayer for a seat (isSpectator = false)
addPlayer(T, socketId) ==
    IF Len(T.players) >= MaxPlayersSetting THEN T
    ELSE LET withChips == {pos \in Positions(T) : P(T, pos).chips > 0}
             chips == IF T.gameStarted /\ NewPlayerChips = "lowest" /\ withChips # {}
                      THEN MinOf({P(T, pos).chips : pos \in withChips})
                      ELSE StartingChips
         IN [T EXCEPT !.players = Append(@, NewPlayer(socketId, chips))]

removePlayer(T, socketId) ==
    [T EXCEPT !.players = FilterSeats(@, {pos \in Positions(T) : P(T, pos).socketId # socketId}, 0),
              !.spectators = @ \ {socketId}]

-----------------------------------------------------------------------------
(* The views sent to the clients                                           *)

\* null in currentPlayerSocketId: no connection has this id
NoSocket == 0

\* null in playerCards
NoCards == <<0>>

\* A faulty public state: the per-seat entries carry the hole cards.
getPublicStateWithCards(T) ==
    [players |-> [i \in DOMAIN T.players |->
                    [socketId |-> T.players[i].socketId,
                     chips |-> T.players[i].chips,
                     bet |-> T.players[i].bet,
                     folded |-> T.players[i].folded,
                     disconnected |-> T.players[i].disconnected,
                     isAllIn |-> T.players[i].isAllIn,
                     lastAction |-> T.players[i].lastAction,
                     cards |-> T.players[i].cards]],
     spectatorCount |-> Cardinality(T.spectators),
     gameStarted |-> T.gameStarted,
     maxPlayers |-> MaxPlayersSetting,
     paused |-> T.paused]

getPublicState(T) ==
    [players |-> [i \in DOMAIN T.players |->
                    [socketId |-> T.players[i].socketId,
                     chips |-> T.players[i].chips,
                     bet |-> T.players[i].bet,
                     folded |-> T.players[i].folded,
                     disconnected |-> T.players[i].disconnected,
                     isAllIn |-> T.players[i].isAllIn,
                     lastAction |-> T.players[i].lastAction]],
     spectatorCount |-> Cardinality(T.spectators),
     gameStarted |-> T.gameStarted,
     maxPlayers |-> MaxPlayersSetting,
     paused |-> T.paused]

getGameState(T, socketId) ==
    LET pub == getPublicState(T)
    IN [players |-> pub.players,
        spectatorCount |-> pub.spectatorCount,
        gameStarted |-> pub.gameStarted,
        maxPlayers |-> pub.maxPlayers,
        paused |-> pub.paused,
        communityCards |-> T.communityCards,
        pot |-> T.pot,
        currentBet |-> T.currentBet,
        gamePhase |-> T.gamePhase,
        dealerIndex |-> T.dealerPosition,
        currentPlayerSocketId |->
            IF T.currentTurnPosition >= 0 /\ T.currentTurnPosition < Len(T.players)
            THEN P(T, T.currentTurnPosition).socketId ELSE NoSocket,
        smallBlind |-> T.smallBlind,
        bigBlind |-> T.bigBlind,
        playerCards |-> IF PosOf(T, socketId) # -1 THEN P(T, PosOf(T, socketId)).cards
                        ELSE NoCards,
        isHost |-> (socketId = HostId),
        isSpectator |-> (socketId \in T.spectators),
        actionLog |-> T.actionLog,
        mySocketId |-> socketId]

-----------------------------------------------------------------------------
(* The socket handlers and the timer callbacks                             *)

\* tables.delete(tableId): the table object is dropped.
ClosedTable == [NewTable EXCEPT !.tableOpen = FALSE]

Seated(T, socketId) == PosOf(T, socketId) # -1

Serving == tableOpen /\ ~hung

\* The bound on irregular events: an action that costs one is taken only
\* while the budget lasts.
Spend(cost) ==
    /\ irregular + cost <= MaxIrregular
    /\ irregular' = irregular + cost

\* The history variables: whether the hand being played was dealt heads-up,
\* and which connection was given the dealer button.
Track ==
    /\ headsUp' = IF handsStarted' = handsStarted + 1
                  THEN Cardinality(getActivePlayers(TableRec)) = 2
                  ELSE headsUp
    /\ button' = IF handsStarted' = handsStarted + 1
                 THEN players'[dealerPosition' + 1].socketId
                 ELSE button

\* The number of hands the model deals to this table.
HandsAllowed(T) ==
    IF Cardinality(getActivePlayers(T)) > 2 THEN MaxHandsMultiway
    ELSE IF T.smallBlind > SmallBlindSetting THEN MaxHandsRaised
    ELSE MaxHands

\* socket.on('joinTable'): connection s is the next one to join
JoinTable(s, isSpectator) ==
    /\ Serving
    /\ s = joined + 1
    /\ joined' = s
    /\ Spend(IF isSpectator \/ gameStarted THEN 1 ELSE 0)
    /\ LET T == TableRec
       IN IF isSpectator
          THEN SetTable([T EXCEPT !.spectators = @ \cup {s}, !.playerSockets = @ \cup {s}])
          ELSE IF Len(T.players) >= MaxPlayersSetting
               THEN UNCHANGED tableVars
               ELSE SetTable([addPlayer(T, s) EXCEPT !.playerSockets = @ \cup {s}])
    /\ UNCHANGED <<headsUp, button, evalVars>>

\* socket.on('startGame')
StartGame(s, shuffle) ==
    /\ Serving
    /\ s \in playerSockets
    /\ handsStarted < HandsAllowed(TableRec)
    /\ IF s = HostId
       THEN SetTable(startGame(TableRec, shuffle)) /\ Spend(IF gameStarted THEN 1 ELSE 0)
       ELSE UNCHANGED <<tableVars, irregular>>
    /\ Track
    /\ UNCHANGED <<joined, evalVars>>

\* socket.on('playerAction')
PlayerAction(s, action, amount) ==
    /\ Serving
    /\ s \in playerSockets
    /\ <<action, amount>> \in Submissions
    /\ Spend(IF gamePhase \notin BettingPhases
                /\ PlayerActionReturns(TableRec, s, action, amount) THEN 1 ELSE 0)
    /\ SetTable(playerAction(TableRec, s, action, amount))
    /\ UNCHANGED <<joined, headsUp, button, evalVars>>

\* The callback of startTurnTimer. Once it has run, the handle left in
\* turnTimeout is spent: clearing it has no effect, so it is modelled as null.
TurnTimerFire ==
    /\ Serving
    /\ turnTimeout = "pending"
    /\ LET T == [TableRec EXCEPT !.turnTimeout = "null"]
           pos == T.currentTurnPosition
       IN IF pos \in Positions(T) /\ ~P(T, pos).folded /\ ~P(T, pos).isAllIn
          THEN /\ SetTable(playerAction(T, P(T, pos).socketId, "fold", 0))
               /\ Spend(IF gamePhase \notin BettingPhases
                           /\ PlayerActionReturns(T, P(T, pos).socketId, "fold", 0)
                        THEN 1 ELSE 0)
          ELSE SetTable(T) /\ UNCHANGED irregular
    /\ UNCHANGED <<joined, headsUp, button, evalVars>>

\* The callback of the setTimeout of scheduleNextHand
NextHandTimerFire(shuffle) ==
    /\ Serving
    /\ nextHandTimers > 0
    /\ handsStarted < HandsAllowed(TableRec)
    /\ LET T == [TableRec EXCEPT !.nextHandTimers = @ - 1]
       IN IF Cardinality(getActivePlayers(T)) >= 2
          THEN SetTable(startNewHand(T, shuffle))
          ELSE SetTable(T)
    /\ Track
    /\ UNCHANGED <<joined, irregular, evalVars>>

\* socket.on('kickPlayer')
KickPlayer(s, target) ==
    /\ Serving
    /\ s \in playerSockets
    /\ IF s = HostId
       THEN SetTable(removePlayer(TableRec, target)) /\ Spend(1)
       ELSE UNCHANGED <<tableVars, irregular>>
    /\ UNCHANGED <<joined, headsUp, button, evalVars>>

\* socket.on('pauseGame')
PauseGame(s) ==
    /\ Serving
    /\ s \in playerSockets
    /\ IF s = HostId
       THEN /\ LET T == [TableRec EXCEPT !.paused = ~@]
               IN SetTable(IF T.paused THEN clearTurnTimer(T) ELSE startTurnTimer(T))
            /\ Spend(IF paused THEN 0 ELSE 1)
       ELSE UNCHANGED <<tableVars, irregular>>
    /\ UNCHANGED <<joined, headsUp, button, evalVars>>

\* tables.delete when the last player and spectator are gone
DropIfEmpty(T) == IF Len(T.players) = 0 /\ T.spectators = {} THEN ClosedTable ELSE T

\* socket.on('leaveTable')
LeaveTable(s) ==
    /\ Serving
    /\ s \in playerSockets
    /\ Spend(1)
    /\ IF s = HostId
       THEN SetTable(ClosedTable)
       ELSE SetTable(DropIfEmpty([removePlayer(TableRec, s) EXCEPT !.playerSockets = @ \ {s}]))
    /\ UNCHANGED <<joined, headsUp, button, evalVars>>

\* socket.on('disconnect')
Disconnect(s) ==
    /\ Serving
    /\ s \in playerSockets
    /\ Spend(1)
    /\ LET T == [TableRec EXCEPT !.gone = @ \cup {s}, !.playerSockets = @ \ {s}]
       IN IF s = HostId
          THEN SetTable(ClosedTable)
          ELSE IF Seated(T, s)
               THEN SetTable([T EXCEPT !.players[PosOf(T, s) + 1].disconnected = TRUE,
                                       !.disconnectTimers = @ \cup {s}])
               ELSE SetTable([T EXCEPT !.spectators = @ \ {s}])
    /\ UNCHANGED <<joined, headsUp, button, evalVars>>

\* The callback of the grace timer armed by 'disconnect'
DisconnectTimerFire(s) ==
    /\ Serving
    /\ s \in disconnectTimers
    /\ SetTable(DropIfEmpty([removePlayer(TableRec, s) EXCEPT !.disconnectTimers = @ \ {s},
                                                              !.playerSockets = @ \ {s}]))
    /\ UNCHANGED <<boundVars, evalVars>>

TableInit ==
    /\ tableOpen = NewTable.tableOpen
    /\ players = NewTable.players
    /\ spectators = NewTable.spectators
    /\ gameStarted = NewTable.gameStarted
    /\ paused = NewTable.paused
    /\ deck = NewTable.deck
    /\ communityCards = NewTable.communityCards
    /\ pot = NewTable.pot
    /\ currentBet = NewTable.currentBet
    /\ minRaise = NewTable.minRaise
    /\ dealerPosition = NewTable.dealerPosition
    /\ currentTurnPosition = NewTable.currentTurnPosition
    /\ gamePhase = NewTable.gamePhase
    /\ turnTimeout = NewTable.turnTimeout
    /\ actionLog = NewTable.actionLog
    /\ smallBlind = NewTable.smallBlind
    /\ bigBlind = NewTable.bigBlind
    /\ nextHandTimers = NewTable.nextHandTimers
    /\ disconnectTimers = NewTable.disconnectTimers
    /\ playerSockets = NewTable.playerSockets
    /\ gone = NewTable.gone
    /\ handsStarted = NewTable.handsStarted
    /\ hung = NewTable.hung
    /\ joined = 0
    /\ irregular = 0
    /\ headsUp = FALSE
    /\ button = NoSocket

Init ==
    /\ TableInit
    /\ evalA = <<>>
    /\ evalB = <<>>
    /\ evalOut = <<>>

Next ==
    \/ \E s \in Sockets, isSpectator \in BOOLEAN : JoinTable(s, isSpectator)
    \/ \E s \in Sockets, shuffle \in 1..NumShuffles : StartGame(s, shuffle)
    \/ \E s \in Sockets, action \in Actions, amount \in Amounts : PlayerAction(s, action, amount)
    \/ TurnTimerFire
    \/ \E shuffle \in 1..NumShuffles : NextHandTimerFire(shuffle)
    \/ \E s \in Sockets, target \in Sockets : KickPlayer(s, target)
    \/ \E s \in Sockets : PauseGame(s)
    \/ \E s \in Sockets : LeaveTable(s)
    \/ \E s \in Sockets : Disconnect(s)
    \/ \E s \in Sockets : DisconnectTimerFire(s)

Spec == Init /\ [][Next]_vars

-----------------------------------------------------------------------------
(* The hand evaluator on its own: two hands are drawn, then evaluated      *)

\* The five-card hands: every five of these ten cards, which hold every
\* category from high card to straight flush, the wheel included.
EvalDeckFive ==
    {CardId("hearts", 2), CardId("hearts", 3), CardId("hearts", 4), CardId("hearts", 5),
     CardId("hearts", 6), CardId("hearts", 14), CardId("diamonds", 2), CardId("clubs", 2),
     CardId("spades", 2), CardId("diamonds", 14)}

\* The seven-card hands: every seven of these nine cards.
EvalDeckSeven ==
    {CardId("spades", 14), CardId("hearts", 14), CardId("diamonds", 13), CardId("clubs", 12),
     CardId("hearts", 11), CardId("spades", 9), CardId("diamonds", 7), CardId("clubs", 4),
     CardId("hearts", 2)}

\* The elements of a set of card indices as an ascending list
RECURSIVE AscendingList(_)
AscendingList(S) == IF S = {} THEN <<>> ELSE <<MinOf(S)>> \o AscendingList(S \ {MinOf(S)})

EvalHandsFive == {AscendingList(S) : S \in {X \in SUBSET EvalDeckFive : Cardinality(X) = 5}}

EvalHandsSeven == {AscendingList(S) : S \in {X \in SUBSET EvalDeckSeven : Cardinality(X) = 7}}

InitEval ==
    /\ TableInit
    /\ \/ evalA \in EvalHandsFive /\ evalB \in EvalHandsFive
       \/ evalA \in EvalHandsSeven /\ evalB \in EvalHandsSeven
    /\ evalOut = <<>>

\* PokerHand.evaluateHand applied to both five-card hands
EvaluateFive ==
    /\ evalOut = <<>>
    /\ Len(evalA) = 5
    /\ evalOut' = <<evaluateHand(CardsOf(evalA)), evaluateHand(CardsOf(evalB))>>
    /\ UNCHANGED <<tableVars, boundVars, evalA, evalB>>

\* PokerHand.rankHand applied to both seven-card hands
EvaluateSeven ==
    /\ evalOut = <<>>
    /\ Len(evalA) = 7
    /\ evalOut' = <<rankHand(CardsOf(evalA)), rankHand(CardsOf(evalB))>>
    /\ UNCHANGED <<tableVars, boundVars, evalA, evalB>>

NextEval == EvaluateFive \/ EvaluateSeven

SpecEval == InitEval /\ [][NextEval]_vars

-----------------------------------------------------------------------------
(* Properties of the table                                                 *)

\* The sum of the stacks of the seated players
SumChips(T) == SumSeq([i \in DOMAIN T.players |-> T.players[i].chips])

\* The seats the pot of table U went to: the only seat left in the hand, or
\* the showdown winners among those left
WinnersOf(U) ==
    LET inHand == {pos \in getPlayersInHand(U) : ~P(U, pos).folded}
    IN IF Cardinality(inHand) <= 1 THEN inHand
       ELSE Winners([pos \in inHand |-> HandOf(U, pos)])

\* C1 - chip conservation: an accepted player action of a hand in progress
\* leaves the sum of all stacks plus the pot unchanged as long as the pot has
\* not been awarded; the action that awards the pot leaves the stacks summing
\* to the earlier stacks plus pot, less the floor-division remainder of a
\* split, which is at most the number of winners minus one.
C1_ChipConservation ==
    gamePhase \in BettingPhases =>
        \A s \in Sockets, x \in Submissions :
            PlayerActionReturns(TableRec, s, x[1], x[2]) =>
                LET U == playerAction(TableRec, s, x[1], x[2])
                    before == SumChips(TableRec) + pot
                    after == SumChips(U)
                IN IF U.gamePhase \in BettingPhases \cup {"showdown"}
                   THEN after + U.pot = before
                   ELSE /\ after <= before
                        /\ before - after <= Cardinality(WinnersOf(U)) - 1

\* A pot was split between two winners and one chip of it was left over.
C1_Witness ==
    /\ gamePhase = "waiting_next_hand"
    /\ actionLog # <<>>
    /\ actionLog[Len(actionLog)][1] = "wins (split pot)"
    /\ pot - 2 * actionLog[Len(actionLog)][3] = 1

\* The condition the claim puts on the caller of playerAction
HoldsTurn(s) ==
    /\ ~paused
    /\ \E pos \in Positions(TableRec) :
          /\ pos = currentTurnPosition
          /\ players[pos + 1].socketId = s
          /\ ~players[pos + 1].folded
          /\ ~players[pos + 1].isAllIn

\* C2 - an action is applied only for the turn holder: whenever the caller is
\* not the seat at currentTurnPosition, or is folded or all-in, or the table is
\* paused, playerAction returns false and leaves the table as it was.
C2_OnlyTurnHolderActs ==
    \A s \in Sockets :
        ~HoldsTurn(s) =>
            \A x \in Submissions :
                /\ ~PlayerActionReturns(TableRec, s, x[1], x[2])
                /\ playerAction(TableRec, s, x[1], x[2]) = TableRec

\* A hand is in progress with the turn timer armed; one seated player holds
\* the turn and has an action accepted, another does not hold it.
C2_Witness ==
    /\ gamePhase \in BettingPhases
    /\ turnTimeout = "pending"
    /\ \E s, r \in Sockets :
          /\ HoldsTurn(s) /\ PlayerActionReturns(TableRec, s, "call", 0)
          /\ ~HoldsTurn(r) /\ Seated(TableRec, r) /\ ~P(TableRec, PosOf(TableRec, r)).folded

\* C3 - a rejected playerAction is a no-op: whenever playerAction returns
\* false, the whole table state, the armed turn timer included, is unchanged.
C3_RejectedIsNoOp ==
    \A s \in Sockets, x \in Submissions :
        ~PlayerActionReturns(TableRec, s, x[1], x[2]) =>
            playerAction(TableRec, s, x[1], x[2]) = TableRec

\* The table with the hole cards of every seat but c's own removed
HideOthers(T, c) ==
    [T EXCEPT !.players = [i \in DOMAIN @ |->
                             IF @[i].socketId = c THEN @[i] ELSE [@[i] EXCEPT !.cards = <<>>]]]

\* C4 - hole-card privacy: for every connection c, the per-seat entries of
\* getGameState(c) carry no cards field, playerCards is c's own hole cards or
\* null when c holds no seat, and the view is the same as the view of the
\* table in which the other seats' hole cards are erased.
C4_HoleCardPrivacy ==
    \A c \in Sockets :
        LET view == getGameState(TableRec, c)
        IN /\ \A i \in DOMAIN view.players : "cards" \notin DOMAIN view.players[i]
           /\ view.playerCards = IF Seated(TableRec, c)
                                 THEN P(TableRec, PosOf(TableRec, c)).cards ELSE NoCards
           /\ view = getGameState(HideOthers(TableRec, c), c)

\* Hole cards are dealt to two seats, and a spectator is connected too.
C4_Witness ==
    /\ gamePhase \in BettingPhases
    /\ spectators # {}
    /\ \E c, d \in Sockets :
          /\ c # d
          /\ Seated(TableRec, c) /\ P(TableRec, PosOf(TableRec, c)).cards # <<>>
          /\ Seated(TableRec, d) /\ P(TableRec, PosOf(TableRec, d)).cards # <<>>

\* What the claim says of a raise to total X by connection s: it is refused.
RaiseRefused(s, X) ==
    LET player == P(TableRec, PosOf(TableRec, s))
        allIn == X = player.chips + player.bet
    IN \/ X <= currentBet
       \/ X > player.chips + player.bet
       \/ X - currentBet < minRaise /\ ~allIn

\* C8 - raise legality: for the turn holder, a raise to X is accepted unless
\* X <= currentBet, X exceeds stack plus bet, or X - currentBet < minRaise
\* without being all-in; the switch of an accepted raise sets minRaise to X
\* minus the previous currentBet, currentBet to X, and clears
\* hasActedThisRound of every other seat that is neither folded nor all-in.
C8_RaiseLegality ==
    \A s \in Sockets, X \in Amounts :
        ActionAdmitted(TableRec, s) =>
            LET T == clearTurnTimer(TableRec)
                U == ApplyAction(T, s, "raise", X)
            IN /\ RaiseRefused(s, X) <=> ~PlayerActionReturns(TableRec, s, "raise", X)
               /\ RaiseRefused(s, X) => playerAction(TableRec, s, "raise", X) = T
               /\ ~RaiseRefused(s, X) =>
                     /\ U.minRaise = X - currentBet
                     /\ U.currentBet = X
                     /\ \A i \in DOMAIN players :
                           (players[i].socketId # s /\ ~players[i].folded /\ ~players[i].isAllIn)
                               => ~U.players[i].hasActedThisRound

\* The turn holder faces three raises at once: one short of the minimum and
\* refused, one short of the minimum but all-in and accepted, and, with
\* another seat having acted already, a full raise is open too.
C8_Witness ==
    /\ gamePhase \in BettingPhases
    /\ \E s \in Sockets :
          /\ ActionAdmitted(TableRec, s)
          /\ \E X \in Amounts :
                /\ X > currentBet /\ X - currentBet < minRaise
                /\ ~PlayerActionReturns(TableRec, s, "raise", X)
          /\ \E X \in Amounts :
                /\ X > currentBet /\ X - currentBet < minRaise
                /\ PlayerActionReturns(TableRec, s, "raise", X)
          /\ \E i \in DOMAIN players :
                players[i].socketId # s /\ players[i].hasActedThisRound /\ ~players[i].isAllIn

\* The positions of the seats that hold hole cards
DealtSeats(T) == {pos \in Positions(T) : P(T, pos).cards # <<>>}

\* The first position after `from`, going round the n seats, that is in S
NextIn(S, n, from) ==
    LET k == MinOf({j \in 1..n : ((from + j) % n) \in S})
    IN (from + k) % n

\* This step deals a hand.
HandDealtStep == handsStarted' = handsStarted + 1

\* This step opens the betting of a later street of the hand in progress.
StreetOpenedStep ==
    /\ handsStarted' = handsStarted
    /\ gamePhase \in BettingPhases
    /\ gamePhase' \in {"flop", "turn", "river"}
    /\ gamePhase' # gamePhase

\* C9 - heads-up turn order: a hand dealt to exactly two active players has
\* the dealer post the small blind and hold the first turn; each later street
\* of such a hand that opens for betting gives the first turn to the dealt
\* seat that is not the dealer.
C9_HeadsUpTurnOrder ==
    [][/\ (HandDealtStep /\ Cardinality(getActivePlayers(TableRec)) = 2) =>
             LET U == TableRec'
                 d == U.dealerPosition
             IN /\ d \in DealtSeats(U)
                /\ P(U, d).bet = Min2(smallBlind, P(TableRec, d).chips)
                /\ P(U, d).chips = P(TableRec, d).chips - P(U, d).bet
                /\ U.currentTurnPosition = d
       /\ (StreetOpenedStep /\ headsUp) =>
             LET U == TableRec'
             IN /\ U.currentTurnPosition \in DealtSeats(U)
                /\ U.currentTurnPosition # U.dealerPosition]_vars

\* The seats that may be given a turn: with chips, connected, not folded, not all-in
SeatsToAct(T) ==
    {pos \in Positions(T) : /\ P(T, pos).chips > 0 /\ ~P(T, pos).disconnected
                            /\ ~P(T, pos).folded /\ ~P(T, pos).isAllIn}

\* The postflop half of C10: a later street that opens for betting gives the
\* first turn to the first seat after the dealer that is active, not folded
\* and not all-in.
PostflopFirstToAct ==
    (StreetOpenedStep /\ ~headsUp) =>
        LET U == TableRec'
        IN U.currentTurnPosition = NextIn(SeatsToAct(U), Len(U.players), U.dealerPosition)

\* The seat holding the big blind of the hand just dealt to three or more
BigBlindSeat(U) ==
    LET n == Len(U.players)
    IN NextIn(DealtSeats(U), n, NextIn(DealtSeats(U), n, U.dealerPosition))

\* C10 as amended - turn order with three or more active players: at hand
\* start the first to act is the next dealt seat after the big blind; a later
\* street that opens for betting gives the first turn to the first seat after
\* the dealer that is active, not folded and not all-in.
C10_MultiwayTurnOrder ==
    [][/\ (HandDealtStep /\ Cardinality(getActivePlayers(TableRec)) >= 3) =>
             LET U == TableRec'
             IN U.currentTurnPosition = NextIn(DealtSeats(U), Len(U.players), BigBlindSeat(U))
       /\ PostflopFirstToAct]_vars

\* C10 as stated - at hand start the first to act is two seats after the big
\* blind; postflop as above.
C10_AsStated ==
    [][/\ (HandDealtStep /\ Cardinality(getActivePlayers(TableRec)) >= 3) =>
             LET U == TableRec'
                 n == Len(U.players)
             IN U.currentTurnPosition =
                    NextIn(DealtSeats(U), n, NextIn(DealtSeats(U), n, BigBlindSeat(U)))
       /\ PostflopFirstToAct]_vars

\* A hand dealt to three seats has reached the flop with betting open, the
\* seat after the dealer folded, so that the first turn skipped it.
C10_Witness ==
    /\ gamePhase = "flop"
    /\ ~headsUp
    /\ Cardinality(DealtSeats(TableRec)) = 3
    /\ turnTimeout = "pending"
    /\ currentTurnPosition \in Positions(TableRec)
    /\ \A i \in DOMAIN players : ~players[i].hasActedThisRound /\ players[i].bet = 0
    /\ P(TableRec, (dealerPosition + 1) % 3).folded

-----------------------------------------------------------------------------
(* Properties of the hand evaluator                                        *)

\* Standard poker strength of five cards: the category, then the ranks in
\* tie-break order (by multiplicity, then by rank; a straight by its high
\* card, which is 5 for the wheel).
StrengthOfFive(cards) ==
    LET vals == {cards[i].value : i \in DOMAIN cards}
        mult(v) == Cardinality({i \in DOMAIN cards : cards[i].value = v})
        flush == \A i \in DOMAIN cards : cards[i].suit = cards[1].suit
        wheel == vals = {14, 5, 4, 3, 2}
        straight == Cardinality(vals) = 5 /\ (wheel \/ MaxOf(vals) - MinOf(vals) = 4)
        mults == {mult(v) : v \in vals}
        category == IF straight /\ flush THEN 8
                    ELSE IF 4 \in mults THEN 7
                    ELSE IF mults = {3, 2} THEN 6
                    ELSE IF flush THEN 5
                    ELSE IF straight THEN 4
                    ELSE IF 3 \in mults THEN 3
                    ELSE IF Cardinality(vals) = 3 THEN 2
                    ELSE IF Cardinality(vals) = 4 THEN 1
                    ELSE 0
        order == SortDesc({mult(v) * 100 + v : v \in vals})
    IN <<category>> \o (IF straight THEN <<IF wheel THEN 5 ELSE MaxOf(vals)>>
                        ELSE [i \in DOMAIN order |-> order[i] % 100])

\* a is stronger than b, lexicographically
RECURSIVE Stronger(_, _)
Stronger(a, b) ==
    IF a = <<>> \/ b = <<>> THEN FALSE
    ELSE IF Head(a) # Head(b) THEN Head(a) > Head(b)
    ELSE Stronger(Tail(a), Tail(b))

\* The strength of a hand of five cards, or of the best five of seven
Strength(ids) ==
    IF Len(ids) = 5 THEN StrengthOfFive(CardsOf(ids))
    ELSE LET all == {StrengthOfFive(CardsOf([j \in 1..5 |-> ids[SevenChooseFive[i][j]]])) :
                        i \in DOMAIN SevenChooseFive}
         IN CHOOSE k \in all : \A o \in all : ~Stronger(o, k)

Evaluated == evalOut # <<>>

\* C5 - category dominance: a hand of a strictly higher category scores
\* strictly higher.
C5_CategoryDominance ==
    (Evaluated /\ Strength(evalA)[1] > Strength(evalB)[1]) =>
        evalOut[1].score > evalOut[2].score

\* C6 - the wheel A-2-3-4-5 is a straight that scores strictly lower than
\* every other straight, and the wheel straight flush strictly lower than every
\* other straight flush.
C6_WheelIsLowestStraight ==
    LET a == Strength(evalA)
        b == Strength(evalB)
    IN (Evaluated /\ Len(evalA) = 5 /\ a[1] \in {4, 8} /\ a[2] = 5 /\ b[1] = a[1] /\ b[2] > 5) =>
          /\ evalOut[1].rank = a[1]
          /\ evalOut[1].score < evalOut[2].score

\* C7 - two seven-card hands get equal scores from rankHand exactly when
\* their best five cards are of equal strength.
C7_TiesIffEqualStrength ==
    (Evaluated /\ Len(evalA) = 7) =>
        (evalOut[1].score = evalOut[2].score <=> Strength(evalA) = Strength(evalB))


(***************************************************************************)
(* Runout                                                                  *)
(***************************************************************************)
NotFoldedSeats(T) == {pos \in getPlayersInHand(T) : ~P(T, pos).folded}

\* A hand in a betting phase whose remaining streets are due to be dealt
\* without betting: two or more seats not folded, at most one of them able to
\* act, and the betting round complete.
RunoutDue(T) ==
    /\ T.gamePhase \in BettingPhases
    /\ Cardinality(NotFoldedSeats(T)) >= 2
    /\ Cardinality(CanActSeats(T)) <= 1
    /\ isBettingRoundComplete(T)

HandOver == gamePhase \in {"showdown", "waiting_next_hand", "ended"}

\* C11: no handler leaves the table in a betting phase with two or more seats
\* not folded, at most one able to act and the round complete: the handler
\* that brings this about deals the remaining community cards and goes to the
\* showdown itself.
C11_RunoutOnAllIn == tableOpen => ~RunoutDue(TableRec)


(***************************************************************************)
(* The turn timer                                                          *)
(***************************************************************************)
\* Connection s holds the turn of an unpaused table in a betting phase and has
\* neither folded nor gone all-in.
AwaitedToAct(s) ==
    /\ Serving
    /\ gamePhase \in BettingPhases
    /\ ~paused
    /\ currentTurnPosition \in Positions(TableRec)
    /\ P(TableRec, currentTurnPosition).socketId = s
    /\ ~P(TableRec, currentTurnPosition).folded
    /\ ~P(TableRec, currentTurnPosition).isAllIn

\* C12: an idle turn holder is folded by the turn timer: while an unpaused
\* table in a betting phase waits for its turn holder, the turn timer is
\* pending, so that its expiry folds that player through playerAction.
C12_TimeoutAutoFold == \A s \in Sockets : AwaitedToAct(s) => turnTimeout = "pending"


\* C13: no ghost timers. A next-hand timer is pending only while the table
\* still waits for that next hand, and a turn timer is pending only while a
\* hand is in a betting phase and the seat holding the turn exists and has not
\* folded: a timer that outlives this would fire in a state it was not armed
\* for.
C13_NoGhostTimers ==
    tableOpen =>
        /\ nextHandTimers > 0 => gamePhase = "waiting_next_hand" /\ nextHandTimers = 1
        /\ turnTimeout = "pending" =>
              /\ gamePhase \in BettingPhases
              /\ currentTurnPosition \in Positions(TableRec)
              /\ ~P(TableRec, currentTurnPosition).folded


(***************************************************************************)
(* The showdown                                                            *)
(***************************************************************************)
\* The table as the switch of an accepted action leaves it, before the pot is
\* awarded or the turn moves on.
AfterSwitch(T, s, x) == ApplyAction(clearTurnTimer(T), s, x[1], x[2])

\* The stack of connection s at table T; a player removed from the table has
\* none.
ChipsOf(T, s) == IF Seated(T, s) THEN P(T, PosOf(T, s)).chips ELSE 0

\* The evaluator's score of seat pos of table T on the board `board`
ScoreOn(T, pos, board) == RankOfHand(P(T, pos).cards \o board, RankOfDealt).score

\* The seats among `seats` whose score on the board is the highest of them
BestAmong(T, seats, board) ==
    IF Cardinality(seats) <= 1 THEN seats
    ELSE {pos \in seats : \A q \in seats : ScoreOn(T, q, board) <= ScoreOn(T, pos, board)}

\* Every seat that has not folded, connected or not
UnfoldedSeats(T) == {pos \in Positions(T) : ~P(T, pos).folded}

\* The award of the pot of table A to `winners`, as seen in the stacks of table
\* U: one winner gains the whole pot, each of k winners floor(pot / k),
\* everybody else nothing.
AwardedTo(A, U, winners) ==
    \A pos \in Positions(A) :
        ChipsOf(U, P(A, pos).socketId) =
            P(A, pos).chips + (IF pos \notin winners THEN 0
                               ELSE IF Cardinality(winners) = 1 THEN A.pot
                               ELSE A.pot \div Cardinality(winners))

\* An accepted submission x of connection s ends the hand with two or more
\* seats not folded.
GoesToShowdown(s, x) ==
    /\ gamePhase \in BettingPhases
    /\ PlayerActionReturns(TableRec, s, x[1], x[2])
    /\ playerAction(TableRec, s, x[1], x[2]).gamePhase \in {"waiting_next_hand", "ended"}
    /\ Cardinality(UnfoldedSeats(AfterSwitch(TableRec, s, x))) >= 2

\* The award at the end of submission x of connection s, with the winners
\* taken among `seats` of the table the switch left
ShowdownAward(A, U, seats) == AwardedTo(A, U, BestAmong(A, seats, U.communityCards))

Posted(T, U, pos, blind) ==
    /\ P(U, pos).bet = Min2(blind, P(T, pos).chips)
    /\ P(U, pos).chips = P(T, pos).chips - Min2(blind, P(T, pos).chips)
    /\ P(U, pos).isAllIn <=> (P(U, pos).chips = 0)

\* The blinds of the hand just dealt to table U out of the stacks of table T,
\* with sb and bb the seats that post them and `first` the seat to act.
BlindsPosted(T, U, sb, bb, first) ==
    /\ Posted(T, U, sb, U.smallBlind)
    /\ Posted(T, U, bb, U.bigBlind)
    /\ \A pos \in Positions(U) \ {sb, bb} :
          P(U, pos).bet = 0 /\ P(U, pos).chips = P(T, pos).chips /\ ~P(U, pos).isAllIn
    /\ U.pot = P(U, sb).bet + P(U, bb).bet
    /\ U.currentTurnPosition = first

\* The small blind of a hand dealt to three or more: the next dealt seat after
\* the dealer
SmallBlindSeat(U) == NextIn(DealtSeats(U), Len(U.players), U.dealerPosition)

AllSettled(T, seats) ==
    \A pos \in seats :
        (~P(T, pos).folded /\ ~P(T, pos).isAllIn) =>
            (P(T, pos).hasActedThisRound /\ P(T, pos).bet = T.currentBet)

\* After the switch of an accepted action left table A with the hand still
\* contested, the handler ended in table U: with the round settled among
\* `seats` the street has advanced, otherwise the phase is the same and the
\* turn is on the next seat after the actor that is not folded, disconnected,
\* all-in or out of chips.
RoundStep(A, U, seats) ==
    IF AllSettled(A, seats)
    THEN U.gamePhase # A.gamePhase
    ELSE /\ U.gamePhase = A.gamePhase
         /\ {pos \in Positions(A) : CanTakeTurn(A, pos)} # {}
         /\ U.currentTurnPosition =
               NextIn({pos \in Positions(A) : CanTakeTurn(A, pos)},
                      Len(A.players), A.currentTurnPosition)
         /\ U.communityCards = A.communityCards

\* An accepted submission x of connection s leaves two or more seats in the
\* hand.
StaysContested(s, x) ==
    /\ gamePhase \in BettingPhases
    /\ PlayerActionReturns(TableRec, s, x[1], x[2])
    /\ Cardinality(NotFoldedSeats(AfterSwitch(TableRec, s, x))) >= 2

\* C16: after an accepted action that leaves two or more seats in the hand,
\* the street advances if and only if every seat in the hand (not folded, not
\* disconnected) that is not all-in has acted this round and matched the bet;
\* otherwise the turn passes to the next seat in order that is not folded,
\* disconnected, all-in or out of chips.
C16_RoundCompletion ==
    tableOpen =>
        \A s \in Sockets, x \in Submissions :
            StaysContested(s, x) =>
                RoundStep(AfterSwitch(TableRec, s, x),
                          playerAction(TableRec, s, x[1], x[2]),
                          getPlayersInHand(AfterSwitch(TableRec, s, x)))


(***************************************************************************)
(* The river                                                               *)
(***************************************************************************)
\* This step deals the river to the hand in progress and leaves the table in
\* phase river.
RiverOpenedStep ==
    /\ handsStarted' = handsStarted
    /\ gamePhase = "turn"
    /\ gamePhase' = "river"

\* C17 as stated: the river opens no betting round, so no player action is
\* accepted in phase river.
C17_AsStated ==
    (tableOpen /\ gamePhase = "river") =>
        \A s \in Sockets, x \in Submissions : ~PlayerActionReturns(TableRec, s, x[1], x[2])

\* C17 as amended: when street advancement deals the river with two or more
\* seats able to act, the fifth community card is on the board and a betting
\* round is open on the river: the turn timer is armed for a seat that can
\* act, and that seat's check is accepted.
C17_RiverBettingRound ==
    [][RiverOpenedStep =>
          /\ Len(communityCards') = 5
          /\ turnTimeout' = "pending"
          /\ currentTurnPosition' \in Positions(TableRec')
          /\ CanTakeTurn(TableRec', currentTurnPosition')
          /\ PlayerActionReturns(TableRec', P(TableRec', currentTurnPosition').socketId,
                                 "check", 0)]_vars

\* A betting round is under way on the river: the five cards are out, one seat
\* has acted in this round and the turn timer runs for another.
C17_Witness ==
    /\ gamePhase = "river"
    /\ Len(communityCards) = 5
    /\ turnTimeout = "pending"
    /\ \E pos \in Positions(TableRec) : P(TableRec, pos).hasActedThisRound
    /\ currentTurnPosition \in Positions(TableRec)
    /\ ~P(TableRec, currentTurnPosition).hasActedThisRound


(***************************************************************************)
(* The dealer button                                                       *)
(***************************************************************************)
\* The connections of the active players of table T
ActiveSockets(T) == {P(T, pos).socketId : pos \in getActivePlayers(T)}

\* Seats are filled in the order the connections join and connection ids grow
\* in that order, so the seat order is the order of the ids: the first of S
\* that follows connection h, wrapping around.
FollowingSocket(S, h) ==
    IF \E s \in S : s > h THEN MinOf({s \in S : s > h}) ELSE MinOf(S)

\* This step is the next-hand timer dealing a hand after an earlier one.
NextHandDealtStep ==
    /\ HandDealtStep
    /\ nextHandTimers' = nextHandTimers - 1
    /\ button # NoSocket

\* C18: when the next hand is dealt, the button goes to the first active
\* player that follows the previous hand's dealer in seat order, wrapping
\* around: no active player is skipped and the button does not stay where it
\* was, whoever was eliminated or removed in between.
C18_ButtonRotation ==
    [][NextHandDealtStep =>
          button' = FollowingSocket(ActiveSockets(TableRec) \ {button}, button)]_vars


(***************************************************************************)
(* Pause                                                                   *)
(***************************************************************************)
\* C19: while the table is paused no turn timer is pending; a step that leaves
\* it paused applies no player action or timeout fold (the pot and the action
\* log stay as they are) and does not move the turn; the step that unpauses it
\* arms the turn timer and leaves the turn where it was.
C19_Pause ==
    [][tableOpen' =>
          /\ paused' => turnTimeout' = "null"
          /\ (paused /\ paused') =>
                /\ currentTurnPosition' = currentTurnPosition
                /\ pot' = pot
                /\ actionLog' = actionLog
          /\ (paused /\ ~paused') =>
                /\ turnTimeout' = "pending"
                /\ currentTurnPosition' = currentTurnPosition]_vars


(***************************************************************************)
(* After the hand                                                          *)
(***************************************************************************)
\* C20: the pot is awarded at most once. Once the hand has ended (phase
\* showdown, waiting_next_hand or ended) no submission of any connection is
\* accepted and none changes the table: player actions are applied in phases
\* preflop, flop, turn and river only.
C20_PotAwardedOnce ==
    (tableOpen /\ HandOver) =>
        \A s \in Sockets, x \in Submissions :
            /\ ~PlayerActionReturns(TableRec, s, x[1], x[2])
            /\ playerAction(TableRec, s, x[1], x[2]).players = players
            /\ playerAction(TableRec, s, x[1], x[2]).pot = pot
            /\ playerAction(TableRec, s, x[1], x[2]).gamePhase = gamePhase


(***************************************************************************)
(* The turn holder                                                         *)
(***************************************************************************)
\* C21: in every betting phase currentTurnPosition is the index of a seated
\* player who is neither folded nor all-in, so that the hand can go on by an
\* action or a timeout of the turn holder.
C21_TurnHolderCanAct ==
    (Serving /\ gamePhase \in BettingPhases) =>
        /\ currentTurnPosition \in Positions(TableRec)
        /\ ~P(TableRec, currentTurnPosition).folded
        /\ ~P(TableRec, currentTurnPosition).isAllIn


(***************************************************************************)
(* The transient phases                                                    *)
(***************************************************************************)
\* C22: showdown and waiting_next_hand are transient. The showdown is over
\* within the handler that reaches it, so no handler leaves the table in phase
\* showdown; and a table in waiting_next_hand has a next-hand timer pending,
\* whose expiry takes it to preflop or ended.
C22_TransientPhases ==
    Serving =>
        /\ gamePhase # "showdown"
        /\ gamePhase = "waiting_next_hand" => nextHandTimers > 0


(***************************************************************************)
(* Players seated during a hand                                            *)
(***************************************************************************)
\* The seats of table T that hold no hole cards: they were not dealt into the
\* hand.
UndealtSeats(T) == Positions(T) \ DealtSeats(T)

\* C23: a player seated while a hand is in progress takes no part in it: in a
\* betting phase the turn is never on a seat without hole cards, and no step
\* of the hand adds chips to a seat without hole cards.
C23_JoinerSitsOut ==
    [][/\ (tableOpen' /\ ~hung' /\ gamePhase' \in BettingPhases) =>
             currentTurnPosition' \notin UndealtSeats(TableRec')
       /\ (tableOpen' /\ gamePhase \in BettingPhases /\ handsStarted' = handsStarted) =>
             \A pos \in UndealtSeats(TableRec) :
                 ChipsOf(TableRec', P(TableRec, pos).socketId) <= P(TableRec, pos).chips]_vars


(***************************************************************************)
(* Bets and the bet to match                                               *)
(***************************************************************************)
\* C24: in every betting round no seat's street bet exceeds currentBet, so an
\* accepted call moves between 0 and the caller's stack: it never adds to the
\* caller's chips and never takes from the pot; stacks and pot are never
\* negative.
C24_BetWithinCurrentBet ==
    tableOpen =>
        /\ pot >= 0
        /\ \A pos \in Positions(TableRec) : P(TableRec, pos).chips >= 0
        /\ gamePhase \in BettingPhases =>
              /\ \A pos \in Positions(TableRec) : P(TableRec, pos).bet <= currentBet
              /\ \A s \in Sockets :
                    PlayerActionReturns(TableRec, s, "call", 0) =>
                        /\ AfterSwitch(TableRec, s, <<"call", 0>>).pot >= pot
                        /\ ChipsOf(AfterSwitch(TableRec, s, <<"call", 0>>), s)
                              <= ChipsOf(TableRec, s)


(***************************************************************************)
(* startGame while a hand is in progress                                   *)
(***************************************************************************)
\* C25: once the game has started, a startGame intent from the host during a
\* hand has no effect: the pot, the dealer button, every seat's bet and every
\* seat's hole cards are what they were, so no chips in the pot are discarded.
C25_StartGameOnlyBetweenHands ==
    (Serving /\ gameStarted /\ gamePhase \in BettingPhases /\ HostId \in playerSockets) =>
        \A shuffle \in 1..NumShuffles :
            /\ startGame(TableRec, shuffle).pot = pot
            /\ startGame(TableRec, shuffle).dealerPosition = dealerPosition
            /\ SumChips(startGame(TableRec, shuffle)) + startGame(TableRec, shuffle).pot
                  = SumChips(TableRec) + pot
            /\ \A pos \in Positions(TableRec) :
                  /\ P(startGame(TableRec, shuffle), pos).bet = P(TableRec, pos).bet
                  /\ P(startGame(TableRec, shuffle), pos).cards = P(TableRec, pos).cards

=============================================================================
